---- MODULE Spec2Model ----
(***************************************************************************)
(* A model of data.task.ts (src/src/lib/task.ts): the lazy two-channel     *)
(* Task, its combinators and the array aggregates built on them.           *)
(*                                                                         *)
(* A Task is data (a record naming the combinator that built it and its    *)
(* operands); forking it runs the combinator's execution procedure.  The   *)
(* handlers passed to fork are closures: they are records naming the       *)
(* closure's code and the variables it captured.  One action of the model  *)
(* is one JavaScript job: the caller's fork call with everything that runs *)
(* synchronously inside it, or the callback of one asynchronous effect     *)
(* with everything it triggers.                                            *)
(***************************************************************************)
EXTENDS Integers, Sequences, FiniteSets, TLC

VARIABLES
    items,     \* the Tasks the caller built with new Task(...), by id
    prog,      \* the Task the caller combined from them and forks
    twin,      \* a second Task the caller forks after prog, to compare the two
    toFork,    \* how many times the caller will still call prog.fork
    cells,     \* guard records created by synchronize / by the flag-based ap
    pending,   \* asynchronous effects started and not yet completed
    out,       \* calls received by the caller's two handlers, in order
    log        \* history: forks of user Tasks, their completions, guard creations

vars == <<items, prog, twin, toFork, cells, pending, out, log>>

(***************************************************************************)
(* Bounds                                                                  *)
(***************************************************************************)
MaxItems == 3      \* longest array handed to all / allSeq / allSeattle
MaxForks == 2      \* most fork calls the caller makes on one Task
MaxTwinItems == 2  \* longest array handed to two aggregates that are compared

(***************************************************************************)
(* JavaScript values.  Every value is a record tagged with its type.       *)
(***************************************************************************)
JSNull == [t |-> "null"]
JSUndefined == [t |-> "undefined"]
JSFalse == [t |-> "boolean", b |-> FALSE]
Num(n) == [t |-> "number", n |-> n]
Str(s) == [t |-> "string", s |-> s]
Arr(a) == [t |-> "array", a |-> a]
Err(m) == [t |-> "error", message |-> m]

\* x != null  (loose inequality: false exactly for null and undefined)
NotNull(x) == x.t \notin {"null", "undefined"}

\* monet's Either.Left / Either.Right
Left(x) == [t |-> "Left", l |-> x]
Right(x) == [t |-> "Right", r |-> x]

\* what a call of the caller's function leaves when the function raises error
Throw(error) == [t |-> "throw", error |-> error]

\* a Promise of the caller: it settles later, with a value or error decided
\* then (mode "async") or with the outcome ch, x (mode "timer")
Promise(id, mode, dom, ch, x) ==
    [t |-> "Promise", id |-> id, mode |-> mode, dom |-> dom, ch |-> ch, x |-> x]

\* the caller's curried n-ary function  a1 => ... => an => [a1, ..., an]
Collect(n) == [t |-> "function", code |-> "collect", arity |-> n, args |-> <<>>]

(***************************************************************************)
(* Task constructors and combinators: each returns a new Task and runs     *)
(* nothing.                                                                *)
(***************************************************************************)
\* new Task(fork) by the caller.  mode "sync": the procedure calls channel
\* ch with x before it returns; mode "async": it starts an effect whose
\* callback calls one channel later, with a value or error decided then
\* (dom names the values the effect can produce); mode "timer": it starts a
\* timer whose callback calls channel ch with x.
NewTask(id, mode, dom, ch, x) ==
    [t |-> "Task", op |-> "new", id |-> id, mode |-> mode, dom |-> dom, ch |-> ch, x |-> x]

Task_of(r) == [t |-> "Task", op |-> "of", r |-> r]

Task_rejected(err) == [t |-> "Task", op |-> "rejected", err |-> err]

ap(this, tf) == [t |-> "Task", op |-> "ap", this |-> this, tf |-> tf]

apTo(this, to) == [t |-> "Task", op |-> "apTo", this |-> this, to |-> to]

flag_ap(this, tf) == [t |-> "Task", op |-> "flag_ap", this |-> this, tf |-> tf]

flag_apTo(this, to) == [t |-> "Task", op |-> "flag_apTo", this |-> this, to |-> to]

map(this, f) == [t |-> "Task", op |-> "map", this |-> this, f |-> f]

chain(this, f) == [t |-> "Task", op |-> "chain", this |-> this, f |-> f]

fromTry(f) == [t |-> "Task", op |-> "fromTry", f |-> f]

fromEither(e) == [t |-> "Task", op |-> "fromEither", e |-> e]

fromLazyPromise(lazyPromise) == [t |-> "Task", op |-> "fromLazyPromise", lazyPromise |-> lazyPromise]

rejectMap(this, g) == [t |-> "Task", op |-> "rejectMap", this |-> this, g |-> g]

orElse(this, g) == [t |-> "Task", op |-> "orElse", this |-> this, g |-> g]

bimap(this, g, f) == [t |-> "Task", op |-> "bimap", this |-> this, g |-> g, f |-> f]

fold(this, g, f) == [t |-> "Task", op |-> "fold", this |-> this, g |-> g, f |-> f]

taskToTaskOfEither(task) == [t |-> "Task", op |-> "taskToTaskOfEither", task |-> task]

(***************************************************************************)
(* The closures the array aggregates hand to chain / map / Task.of, and    *)
(* their application.                                                      *)
(***************************************************************************)
Closure(code, captured) == [t |-> "function", code |-> code, captured |-> captured]

\* mutant: the new element is put in front
all_list_prepend(el, list) == Arr(<<el>> \o list.a)

\* Task.all, line 516:  (list) => [...list, el]
all_list(el, list) == Arr(list.a \o <<el>>)

\* Task.all, line 516:  (el) => Task.of((list) => [...list, el])
all_el(el) == Task_of(Closure("all_list", el))

\* Task.allSeattle, line 547:  (el) => [...list, el]
allSeattle_el(list, el) == Arr(list.a \o <<el>>)

\* Task.allSeattle, line 547:  (list) => Task.of((el) => [...list, el])
allSeattle_list(list) == Task_of(Closure("allSeattle_el", list))

\* Task.allSeq of lines 83-88, line 85:  (listOfT) => [...listOfT, t]
allSeqBind_listOfT(t, listOfT) == Arr(listOfT.a \o <<t>>)

\* Task.allSeq of lines 83-88, line 85:  (t) => acc.map((listOfT) => [...listOfT, t])
allSeqBind_t(acc, t) == map(acc, Closure("allSeqBind_listOfT", t))

\* Task.allSeq, line 503:  (t) => [...listOfT, t]
allSeq_t(listOfT, x) == Arr(listOfT.a \o <<x>>)

\* Task.allSeq, line 503:  (listOfT) => x.map((t) => [...listOfT, t])
allSeq_listOfT(x, listOfT) == map(x, Closure("allSeq_t", listOfT))

\* Task.allSeattleSeq, line 532:  (listOfT) => [...listOfT, t]
allSeattleSeq_listOfT(x, listOfT) == Arr(listOfT.a \o <<x>>)

\* Task.allSeattleSeq, line 532:  (t) => acc.map((listOfT) => [...listOfT, t])
allSeattleSeq_t(acc, x) == map(acc, Closure("allSeattleSeq_listOfT", x))

\* Array.prototype.concat with one argument: an array argument is spread,
\* anything else is appended
concat(xs, x) == IF x.t = "array" THEN Arr(xs.a \o x.a) ELSE Arr(xs.a \o <<x>>)

\* Task.arrayTraverseM, line 492:  (x) => Task.of(xs.concat(x))
arrayTraverseM_x(xs, x) == Task_of(concat(xs, x))

\* a function written by the caller, given by its graph; every call of it
\* is recorded in the history under its name
UserFn(name, table) == [t |-> "function", code |-> "user", name |-> name, table |-> table]

\* const cons = x => xs => xs.concat([x]) of arrayTraverseA
cons_xs(x, xs) == Arr(Append(xs.a, x))
cons == Closure("cons", JSUndefined)
cons_x(x) == Closure("cons_xs", x)

\* the caller's curried function: returns the array of its arguments once
\* it has received all of them
collect(f, x) ==
    LET args == Append(f.args, x)
    IN  IF Len(args) = f.arity THEN Arr(args) ELSE [f EXCEPT !.args = args]

\* f(x)
Apply(f, x) ==
    CASE f.code = "collect" -> collect(f, x)
      [] f.code = "all_el" -> all_el(x)
      [] f.code = "all_list" -> all_list(f.captured, x)
      [] f.code = "allSeattle_list" -> allSeattle_list(x)
      [] f.code = "allSeattle_el" -> allSeattle_el(f.captured, x)
      [] f.code = "allSeq_listOfT" -> allSeq_listOfT(f.captured, x)
      [] f.code = "allSeqBind_t" -> allSeqBind_t(f.captured, x)
      [] f.code = "allSeqBind_listOfT" -> allSeqBind_listOfT(f.captured, x)
      [] f.code = "allSeq_t" -> allSeq_t(f.captured, x)
      [] f.code = "allSeattleSeq_t" -> allSeattleSeq_t(f.captured, x)
      [] f.code = "allSeattleSeq_listOfT" -> allSeattleSeq_listOfT(f.captured, x)
      [] f.code = "arrayTraverseM_x" -> arrayTraverseM_x(f.captured, x)
      [] f.code = "Task_of" -> Task_of(x)
      [] f.code = "identity" -> x
      [] f.code = "cons" -> cons_x(x)
      [] f.code = "tap_input" -> f.captured
      [] f.code = "rejectTap_failure" -> f.captured
      [] f.code = "cons_xs" -> cons_xs(f.captured, x)

(***************************************************************************)
(* The array aggregates: Array.prototype.reduce over the items, from the   *)
(* left, starting from Task.of([]).                                        *)
(***************************************************************************)
RECURSIVE Task_all_reduce(_, _)
Task_all_reduce(arr, n) ==
    IF n = 0 THEN Task_of(Arr(<<>>))
    ELSE apTo(chain(arr[n], Closure("all_el", JSUndefined)), Task_all_reduce(arr, n - 1))

\* Task.allSeq of lines 83-88 (bind is chain, line 272):
\* arr.reduce((acc, x) => x.bind(t => acc.map(...)), Task.of([]))
RECURSIVE Task_allSeqBind_reduce(_, _)
Task_allSeqBind_reduce(arr, n) ==
    IF n = 0 THEN Task_of(Arr(<<>>))
    ELSE chain(arr[n], Closure("allSeqBind_t", Task_allSeqBind_reduce(arr, n - 1)))

Task_allSeqBind(arr) == Task_allSeqBind_reduce(arr, Len(arr))

RECURSIVE Task_allSeq_reduce(_, _)
Task_allSeq_reduce(arr, n) ==
    IF n = 0 THEN Task_of(Arr(<<>>))
    ELSE chain(Task_allSeq_reduce(arr, n - 1), Closure("allSeq_listOfT", arr[n]))

RECURSIVE Task_allSeattle_reduce(_, _)
Task_allSeattle_reduce(arr, n) ==
    IF n = 0 THEN Task_of(Arr(<<>>))
    ELSE apTo(chain(Task_allSeattle_reduce(arr, n - 1), Closure("allSeattle_list", JSUndefined)),
              taskToTaskOfEither(arr[n]))

Task_allSeattle(arr) == Task_allSeattle_reduce(arr, Len(arr))

\* Task.arrayTraverseM: arr.reduce((tl, i) => tl.chain(xs => ...), Task.of([]))
RECURSIVE Task_arrayTraverseM_reduce(_, _, _)
Task_arrayTraverseM_reduce(f, arr, n) ==
    IF n = 0 THEN Task_of(Arr(<<>>))
    ELSE chain(Task_arrayTraverseM_reduce(f, arr, n - 1),
               Closure("arrayTraverseM_xs", [f |-> f, i |-> arr[n]]))

Task_arrayTraverseM(f, arr) == Task_arrayTraverseM_reduce(f, arr, Len(arr))

RECURSIVE Task_allSeattleSeq_reduce(_, _)
Task_allSeattleSeq_reduce(arr, n) ==
    IF n = 0 THEN Task_of(Arr(<<>>))
    ELSE chain(taskToTaskOfEither(arr[n]),
               Closure("allSeattleSeq_t", Task_allSeattleSeq_reduce(arr, n - 1)))

Task_allSeattleSeq(arr) == Task_allSeattleSeq_reduce(arr, Len(arr))

\* mutant: all built as the sequential aggregate
Task_all_sequential(arr) == Task_allSeq_reduce(arr, Len(arr))

Task_all(arr) == Task_all_reduce(arr, Len(arr))

\* mutant: allSeq built as the parallel aggregate
Task_allSeq_parallel(arr) == Task_all_reduce(arr, Len(arr))

Task_allSeq(arr) == Task_allSeq_reduce(arr, Len(arr))

(***************************************************************************)
(* Execution.  st is the heap while one job runs:                          *)
(*   st.cells, st.pending, st.out, st.log as the variables of that name,   *)
(*   st.h the number of the caller's fork call the job belongs to.         *)
(* Fork(task, reject, resolve, st) is task.fork(reject, resolve) and       *)
(* Call(k, x, st) is k(x) for a handler k; both return the heap after the  *)
(* call has returned.                                                      *)
(***************************************************************************)
RECURSIVE Fork(_, _, _, _), Call(_, _, _)

\* the caller's handlers: fork(err => ..., value => ...)
Handler(h, ch) == [k |-> "handler", h |-> h, ch |-> ch]

\* a handler of the caller that raises once it has been called, like
\* throwShouldNotHappen or a failing expect(...) of the tests
RaisingHandler(h, ch) == [k |-> "raising_handler", h |-> h, ch |-> ch]
HandlerError == Err("should not happen")

\* no exception is propagating
NoExc == [t |-> "none"]

Record(st, e) == [st EXCEPT !.log = Append(@, e)]

\* f(x) for a function that may call the caller's functions: the value
\* returned and the heap after the call
RECURSIVE Invoke(_, _, _)

\* the caller's function f is called with x
user_call(f, x, st) ==
    [v |-> f.table[x],
     st |-> Record(st, [ev |-> "call", fn |-> f.name, x |-> x, h |-> st.h])]

\* Task.arrayTraverseM, line 492:  (xs) => f(i).chain((x) => Task.of(xs.concat(x)))
arrayTraverseM_xs(captured, xs, st) ==
    LET a == Invoke(captured.f, captured.i, st)
    IN  [v |-> chain(a.v, Closure("arrayTraverseM_x", xs)), st |-> a.st]

\* (x) => g(f(x)), written by the caller
compose(captured, x, st) ==
    LET a == Invoke(captured.f, x, st)
    IN  Invoke(captured.g, a.v, a.st)

\* (x) => f(x).chain(g), written by the caller
kleisli(captured, x, st) ==
    LET a == Invoke(captured.f, x, st)
    IN  [v |-> chain(a.v, captured.g), st |-> a.st]

\* mutant: the value of the Task f returns is reported
tap_keepsResult(f, input, st) ==
    LET r == Invoke(f, input, st)
    IN  [v |-> IF r.v.t = "Task" THEN r.v ELSE Task_of(input), st |-> r.st]

\* Task.tap(f), lines 561-564:
\*   input => { const r = f(input); return r instanceof Task ? r.map(() => input) : Task.of(input) }
tap(f, input, st) ==
    LET r == Invoke(f, input, st)
    IN  [v |-> IF r.v.t = "Task" THEN map(r.v, Closure("tap_input", input)) ELSE Task_of(input),
         st |-> r.st]

\* Task.rejectTap(f), lines 576-579:
\*   failure => { const r = f(failure)
\*                return r instanceof Task ? r.rejectMap(() => failure) : Task.rejected(failure) }
rejectTap(f, failure, st) ==
    LET r == Invoke(f, failure, st)
    IN  [v |-> IF r.v.t = "Task" THEN rejectMap(r.v, Closure("rejectTap_failure", failure))
               ELSE Task_rejected(failure),
         st |-> r.st]

Invoke(f, x, st) ==
    CASE f.code = "user" -> user_call(f, x, st)
      [] f.code = "tap" -> tap(f.captured, x, st)
      [] f.code = "rejectTap" -> rejectTap(f.captured, x, st)
      [] f.code = "arrayTraverseM_xs" -> arrayTraverseM_xs(f.captured, x, st)
      [] f.code = "compose" -> compose(f.captured, x, st)
      [] f.code = "kleisli" -> kleisli(f.captured, x, st)
      [] OTHER -> [v |-> Apply(f, x), st |-> st]

\* arr.map(f), by the caller: the array of the results and the heap after
\* the calls
RECURSIVE Array_map(_, _, _, _)
Array_map(f, arr, n, st) ==
    IF n = 0 THEN [v |-> <<>>, st |-> st]
    ELSE LET hd == Array_map(f, arr, n - 1, st)
             fi == Invoke(f, arr[n], hd.st)
         IN  [v |-> Append(hd.v, fi.v), st |-> fi.st]

\* Task.arrayTraverseA(f, arr): the reduce calls f on every item while the
\* Task is built; the result is the built Task and the heap after the calls
RECURSIVE Task_arrayTraverseA_reduce(_, _, _, _)
Task_arrayTraverseA_reduce(f, arr, n, st) ==
    IF n = 0 THEN [v |-> Task_of(Arr(<<>>)), st |-> st]
    ELSE LET tl == Task_arrayTraverseA_reduce(f, arr, n - 1, st)
             fi == Invoke(f, arr[n], tl.st)
         IN  [v |-> apTo(apTo(Task_of(cons), fi.v), tl.v), st |-> fi.st]

\* mutant: arrayTraverseA defers the calls of f to the fork, as
\* arrayTraverseM does
Task_arrayTraverseA_deferred(f, arr, st) == [v |-> Task_arrayTraverseM(f, arr), st |-> st]

Task_arrayTraverseA(f, arr, st) == Task_arrayTraverseA_reduce(f, arr, Len(arr), st)

\* mutant: the effect is started by the first fork only
new_fork_once(task, reject, resolve, st) ==
    IF \E i \in 1..Len(st.log) : st.log[i].ev = "fork" /\ st.log[i].id = task.id
    THEN st
    ELSE LET st1 == Record(st, [ev |-> "fork", id |-> task.id, h |-> st.h])
         IN  IF task.mode = "sync"
             THEN Call(IF task.ch = "rej" THEN reject ELSE resolve, task.x,
                       Record(st1, [ev |-> "settle", id |-> task.id, h |-> st.h,
                                    ch |-> task.ch, x |-> task.x]))
             ELSE [st1 EXCEPT !.pending = Append(@, [id |-> task.id, h |-> st.h, dom |-> task.dom,
                                                      mode |-> task.mode, ch |-> task.ch, x |-> task.x,
                                                      reject |-> reject, resolve |-> resolve])]

\* the execution procedure of a Task built by the caller with new Task(...)
new_fork(task, reject, resolve, st) ==
    LET st1 == Record(st, [ev |-> "fork", id |-> task.id, h |-> st.h])
    IN  IF task.mode = "sync"
        THEN Call(IF task.ch = "rej" THEN reject ELSE resolve, task.x,
                  Record(st1, [ev |-> "settle", id |-> task.id, h |-> st.h,
                               ch |-> task.ch, x |-> task.x]))
        ELSE [st1 EXCEPT !.pending = Append(@, [id |-> task.id, h |-> st.h, dom |-> task.dom,
                                                 mode |-> task.mode, ch |-> task.ch, x |-> task.x,
                                                 reject |-> reject, resolve |-> resolve])]

\* mutant: Task.of reports on the failure channel
of_fork_rejects(task, reject, resolve, st) == Call(reject, task.r, st)

\* Task.of:  (_, resolve) => resolve(r)
of_fork(task, reject, resolve, st) == Call(resolve, task.r, st)

\* Task.rejected:  reject => reject(err)
rejected_fork(task, reject, resolve, st) == Call(reject, task.err, st)

\* mutant: one guard record serves every fork call
synchronize_shared(rej, res, st) ==
    IF st.cells = <<>>
    THEN [guardReject |-> [k |-> "rejecter", c |-> 1],
          resolveFn |-> [k |-> "resolver", c |-> 1, setter |-> "fn"],
          resolveValue |-> [k |-> "resolver", c |-> 1, setter |-> "val"],
          st |-> Record([st EXCEPT !.cells = <<[fn |-> JSNull, val |-> JSNull, rejected |-> FALSE,
                                                rej |-> rej, res |-> res]>>],
                        [ev |-> "guard", c |-> 1, h |-> st.h])]
    ELSE [guardReject |-> [k |-> "rejecter", c |-> 1],
          resolveFn |-> [k |-> "resolver", c |-> 1, setter |-> "fn"],
          resolveValue |-> [k |-> "resolver", c |-> 1, setter |-> "val"],
          st |-> Record(st, [ev |-> "guard", c |-> 1, h |-> st.h])]

\* synchronize(rej, res): the guard record and its three closures
synchronize(rej, res, st) ==
    LET c == Len(st.cells) + 1
    IN  [guardReject |-> [k |-> "rejecter", c |-> c],
         resolveFn |-> [k |-> "resolver", c |-> c, setter |-> "fn"],
         resolveValue |-> [k |-> "resolver", c |-> c, setter |-> "val"],
         st |-> Record([st EXCEPT !.cells = Append(@, [fn |-> JSNull, val |-> JSNull,
                                                        rejected |-> FALSE,
                                                        rej |-> rej, res |-> res])],
                       [ev |-> "guard", c |-> c, h |-> st.h])]

\* mutant: the rejected flag is set but never consulted
rejecter_unguarded(c, err, st) ==
    Call(st.cells[c].rej, err, [st EXCEPT !.cells[c].rejected = TRUE])

\* mutant: the rejected flag is consulted but never set
rejecter_unlatched(c, err, st) ==
    IF st.cells[c].rejected THEN st ELSE Call(st.cells[c].rej, err, st)

rejecter(c, err, st) ==
    IF st.cells[c].rejected THEN st
    ELSE Call(st.cells[c].rej, err, [st EXCEPT !.cells[c].rejected = TRUE])

resolver(c, setter, x, st) ==
    IF st.cells[c].rejected THEN st
    ELSE LET st1 == [st EXCEPT !.cells[c][setter] = x]
             fn == st1.cells[c].fn
             val == st1.cells[c].val
         IN  IF NotNull(fn) /\ NotNull(val)
             THEN Call(st1.cells[c].res, Apply(fn, val), st1)
             ELSE st1

\* ap:  this.fork(guardReject, resolveValue); tf.fork(guardReject, resolveFn)
ap_fork(task, reject, resolve, st) ==
    LET s == synchronize(reject, resolve, st)
        st1 == Fork(task.this, s.guardReject, s.resolveValue, s.st)
    IN  Fork(task.tf, s.guardReject, s.resolveFn, st1)

\* mutant: the function side is not forked once the value side has failed
apTo_fork_shortcut(task, reject, resolve, st) ==
    LET s == synchronize(reject, resolve, st)
        st1 == Fork(task.to, s.guardReject, s.resolveValue, s.st)
    IN  IF st1.cells[Len(st.cells) + 1].rejected THEN st1
        ELSE Fork(task.this, s.guardReject, s.resolveFn, st1)

\* mutant: the sides are forked in the order of ap (receiver first)
apTo_fork_thisFirst(task, reject, resolve, st) ==
    LET s == synchronize(reject, resolve, st)
        st1 == Fork(task.this, s.guardReject, s.resolveFn, s.st)
    IN  Fork(task.to, s.guardReject, s.resolveValue, st1)

\* apTo:  to.fork(guardReject, resolveValue); this.fork(guardReject, resolveFn)
apTo_fork(task, reject, resolve, st) ==
    LET s == synchronize(reject, resolve, st)
        st1 == Fork(task.to, s.guardReject, s.resolveValue, s.st)
    IN  Fork(task.this, s.guardReject, s.resolveFn, st1)

\* mutant: the error is wrapped on its way through
map_reject_wrapped(reject, err, st) == Call(reject, Left(err), st)

\* map, line 620:  (err) => reject(err)
map_reject(reject, err, st) == Call(reject, err, st)

\* map, line 621:  (r) => resolve(f(r))
map_resolve(f, resolve, r, st) ==
    LET a == Invoke(f, r, st)
    IN  Call(resolve, a.v, a.st)

\* map:  this.fork(err => reject(err), r => resolve(f(r)))
map_fork(task, reject, resolve, st) ==
    Fork(task.this, [k |-> "map_reject", reject |-> reject],
                    [k |-> "map_resolve", f |-> task.f, resolve |-> resolve], st)

\* mutant: the error is wrapped on its way through
chain_reject_wrapped(reject, err, st) == Call(reject, Left(err), st)

\* chain, line 648:  (err) => reject(err)
chain_reject(reject, err, st) == Call(reject, err, st)

\* mutant: f is called a second time for the Task to fork
chain_resolve_callsTwice(f, reject, resolve, r, st) ==
    LET a == Invoke(f, r, st)
        b == Invoke(f, r, a.st)
    IN  Fork(b.v, reject, resolve, b.st)

\* chain, line 649:  (r) => f(r).fork(reject, resolve)
chain_resolve(f, reject, resolve, r, st) ==
    LET a == Invoke(f, r, st)
    IN  Fork(a.v, reject, resolve, a.st)

\* chain:  this.fork(err => reject(err), r => f(r).fork(reject, resolve))
chain_fork(task, reject, resolve, st) ==
    Fork(task.this, [k |-> "chain_reject", reject |-> reject],
                    [k |-> "chain_resolve", f |-> task.f, reject |-> reject,
                     resolve |-> resolve], st)

\* Task.fromTry:  try { return resolve(f()) } catch (error) { return reject(error) }
\* The call of resolve is inside the try block: what resolve raises is
\* caught like what f raises.
fromTry_fork(task, reject, resolve, st) ==
    LET a == Invoke(task.f, JSUndefined, st)
    IN  IF a.v.t = "throw" THEN Call(reject, a.v.error, a.st)
        ELSE LET st1 == Call(resolve, a.v, a.st)
             IN  IF st1.exc = NoExc THEN st1
                 ELSE Call(reject, st1.exc, [st1 EXCEPT !.exc = NoExc])

\* Task.fromEither:  e.fold(reject, resolve)
fromEither_fork(task, reject, resolve, st) ==
    IF task.e.t = "Left" THEN Call(reject, task.e.l, st) ELSE Call(resolve, task.e.r, st)

\* Task.fromLazyPromise:  lazyPromise().then(resolve).catch(reject); the
\* reactions of a Promise run in a later job, also when it is settled already
fromLazyPromise_fork(task, reject, resolve, st) ==
    LET a == Invoke(task.lazyPromise, JSUndefined, st)
        p == a.v
    IN  [a.st EXCEPT !.pending = Append(@, [id |-> p.id, h |-> st.h, dom |-> p.dom,
                                            mode |-> p.mode, ch |-> p.ch, x |-> p.x,
                                            reject |-> reject, resolve |-> resolve])]

\* rejectMap, line 634:  (err) => reject(g(err))
rejectMap_reject(g, reject, err, st) ==
    LET a == Invoke(g, err, st)
    IN  Call(reject, a.v, a.st)

\* rejectMap:  this.fork(err => reject(g(err)), x => resolve(x))
rejectMap_fork(task, reject, resolve, st) ==
    Fork(task.this, [k |-> "rejectMap_reject", g |-> task.g, reject |-> reject],
                    [k |-> "rejectMap_resolve", resolve |-> resolve], st)

\* mutant: the error is passed on and g is not called
orElse_reject_noRecovery(g, reject, resolve, err, st) == Call(reject, err, st)

\* orElse, line 672:  (err) => g(err).fork(reject, resolve)
orElse_reject(g, reject, resolve, err, st) ==
    LET a == Invoke(g, err, st)
    IN  Fork(a.v, reject, resolve, a.st)

\* orElse:  this.fork(err => g(err).fork(reject, resolve), r => resolve(r))
orElse_fork(task, reject, resolve, st) ==
    Fork(task.this, [k |-> "orElse_reject", g |-> task.g, reject |-> reject,
                     resolve |-> resolve],
                    [k |-> "orElse_resolve", resolve |-> resolve], st)

\* bimap, line 687:  (e) => reject(g(e))
bimap_reject(g, reject, e, st) ==
    LET a == Invoke(g, e, st)
    IN  Call(reject, a.v, a.st)

\* bimap, line 688:  (r) => resolve(f(r))
bimap_resolve(f, resolve, r, st) ==
    LET a == Invoke(f, r, st)
    IN  Call(resolve, a.v, a.st)

\* bimap:  this.fork(e => reject(g(e)), r => resolve(f(r)))
bimap_fork(task, reject, resolve, st) ==
    Fork(task.this, [k |-> "bimap_reject", g |-> task.g, reject |-> reject],
                    [k |-> "bimap_resolve", f |-> task.f, resolve |-> resolve], st)

\* mutant: the error is reported as it is, g is not applied
fold_reject_raw(g, resolve, e, st) == Call(resolve, e, st)

\* fold, line 704:  (e) => resolve(g(e))
fold_reject(g, resolve, e, st) ==
    LET a == Invoke(g, e, st)
    IN  Call(resolve, a.v, a.st)

\* fold, line 705:  (r) => resolve(f(r))
fold_resolve(f, resolve, r, st) ==
    LET a == Invoke(f, r, st)
    IN  Call(resolve, a.v, a.st)

\* fold:  this.fork(e => resolve(g(e)), r => resolve(f(r)))
fold_fork(task, reject, resolve, st) ==
    Fork(task.this, [k |-> "fold_reject", g |-> task.g, resolve |-> resolve],
                    [k |-> "fold_resolve", f |-> task.f, resolve |-> resolve], st)

\* mutant: the error is handed to the failure channel untouched
taskToTaskOfEither_fork_passErr(task, reject, resolve, st) ==
    Fork(task.task, reject, [k |-> "either_succ", res |-> resolve], st)

\* taskToTaskOfEither:  t.fork(err => res(Either.Left(err)), succ => res(Either.Right(succ)))
taskToTaskOfEither_fork(task, reject, resolve, st) ==
    Fork(task.task, [k |-> "either_err", res |-> resolve],
                    [k |-> "either_succ", res |-> resolve], st)

\* the earlier ap / apTo (lines 137-225): the guard state is five variables
\* of the execution procedure, captured by guardReject and guardResolver
flag_state(reject, resolve, st) ==
    LET c == Len(st.cells) + 1
    IN  [guardReject |-> [k |-> "flag_guardReject", c |-> c],
         resolveFn |-> [k |-> "flag_guardResolver", c |-> c, setter |-> "fn"],
         resolveValue |-> [k |-> "flag_guardResolver", c |-> c, setter |-> "v"],
         st |-> Record([st EXCEPT !.cells = Append(@, [fn |-> JSUndefined, funcResolved |-> FALSE,
                                                        v |-> JSUndefined, valResolved |-> FALSE,
                                                        rejected |-> FALSE,
                                                        reject |-> reject, resolve |-> resolve])],
                       [ev |-> "guard", c |-> c, h |-> st.h])]

flag_guardReject(c, x, st) ==
    IF ~st.cells[c].rejected
    THEN Call(st.cells[c].reject, x, [st EXCEPT !.cells[c].rejected = TRUE])
    ELSE st

flag_guardResolver(c, setter, x, st) ==
    IF st.cells[c].rejected THEN st
    ELSE LET st1 == IF setter = "fn"
                    THEN [st EXCEPT !.cells[c].funcResolved = TRUE, !.cells[c].fn = x]
                    ELSE [st EXCEPT !.cells[c].valResolved = TRUE, !.cells[c].v = x]
         IN  IF st1.cells[c].funcResolved /\ st1.cells[c].valResolved
             THEN Call(st1.cells[c].resolve, Apply(st1.cells[c].fn, st1.cells[c].v), st1)
             ELSE st1

flag_ap_fork(task, reject, resolve, st) ==
    LET s == flag_state(reject, resolve, st)
        st1 == Fork(task.this, s.guardReject, s.resolveValue, s.st)
    IN  Fork(task.tf, s.guardReject, s.resolveFn, st1)

flag_apTo_fork(task, reject, resolve, st) ==
    LET s == flag_state(reject, resolve, st)
        st1 == Fork(task.this, s.guardReject, s.resolveFn, s.st)
    IN  Fork(task.to, s.guardReject, s.resolveValue, st1)

Fork(task, reject, resolve, st) ==
    CASE task.op = "new" -> new_fork(task, reject, resolve, st)
      [] task.op = "of" -> of_fork(task, reject, resolve, st)
      [] task.op = "rejected" -> rejected_fork(task, reject, resolve, st)
      [] task.op = "ap" -> ap_fork(task, reject, resolve, st)
      [] task.op = "apTo" -> apTo_fork(task, reject, resolve, st)
      [] task.op = "flag_ap" -> flag_ap_fork(task, reject, resolve, st)
      [] task.op = "flag_apTo" -> flag_apTo_fork(task, reject, resolve, st)
      [] task.op = "map" -> map_fork(task, reject, resolve, st)
      [] task.op = "chain" -> chain_fork(task, reject, resolve, st)
      [] task.op = "taskToTaskOfEither" -> taskToTaskOfEither_fork(task, reject, resolve, st)
      [] task.op = "fromTry" -> fromTry_fork(task, reject, resolve, st)
      [] task.op = "fromEither" -> fromEither_fork(task, reject, resolve, st)
      [] task.op = "fromLazyPromise" -> fromLazyPromise_fork(task, reject, resolve, st)
      [] task.op = "rejectMap" -> rejectMap_fork(task, reject, resolve, st)
      [] task.op = "orElse" -> orElse_fork(task, reject, resolve, st)
      [] task.op = "bimap" -> bimap_fork(task, reject, resolve, st)
      [] task.op = "fold" -> fold_fork(task, reject, resolve, st)

Call(k, x, st) ==
    CASE k.k = "handler" -> [st EXCEPT !.out = Append(@, [h |-> k.h, ch |-> k.ch, x |-> x])]
      [] k.k = "raising_handler" ->
            [Record(st, [ev |-> "raise", h |-> k.h, ch |-> k.ch])
                EXCEPT !.out = Append(@, [h |-> k.h, ch |-> k.ch, x |-> x]), !.exc = HandlerError]
      [] k.k = "rejecter" -> rejecter(k.c, x, st)
      [] k.k = "resolver" -> resolver(k.c, k.setter, x, st)
      [] k.k = "flag_guardReject" -> flag_guardReject(k.c, x, st)
      [] k.k = "flag_guardResolver" -> flag_guardResolver(k.c, k.setter, x, st)
      [] k.k = "map_reject" -> map_reject(k.reject, x, st)
      [] k.k = "map_resolve" -> map_resolve(k.f, k.resolve, x, st)
      [] k.k = "chain_reject" -> chain_reject(k.reject, x, st)
      [] k.k = "chain_resolve" -> chain_resolve(k.f, k.reject, k.resolve, x, st)
      [] k.k = "either_err" -> Call(k.res, Left(x), st)
      [] k.k = "either_succ" -> Call(k.res, Right(x), st)
      [] k.k = "rejectMap_reject" -> rejectMap_reject(k.g, k.reject, x, st)
      [] k.k = "rejectMap_resolve" -> Call(k.resolve, x, st)
      [] k.k = "orElse_reject" -> orElse_reject(k.g, k.reject, k.resolve, x, st)
      [] k.k = "orElse_resolve" -> Call(k.resolve, x, st)
      [] k.k = "bimap_reject" -> bimap_reject(k.g, k.reject, x, st)
      [] k.k = "bimap_resolve" -> bimap_resolve(k.f, k.resolve, x, st)
      [] k.k = "fold_reject" -> fold_reject(k.g, k.resolve, x, st)
      [] k.k = "fold_resolve" -> fold_resolve(k.f, k.resolve, x, st)

(***************************************************************************)
(* What the effects of the caller's Tasks can produce.                     *)
(***************************************************************************)
JSVals == {JSNull, JSUndefined, Num(0), JSFalse, Str(""), Num(1)}
ItemVals == {JSNull, Num(1), Num(2)}
LawVals == {JSNull, Num(1)}
TravVals == {JSNull, Num(1), Arr(<<Num(2)>>)}
Errs == {Err("A"), Err("B")}

Dom(dom) ==
    CASE dom = "val" -> JSVals
      [] dom = "item" -> ItemVals
      [] dom = "trav" -> TravVals
      [] dom = "law" -> LawVals
      [] dom = "first" -> {Num(1)}
      [] dom = "second" -> {JSNull}
      [] dom = "secondFn" -> {Collect(1)}
      [] dom = "fn1" -> {Collect(1)}
      [] dom = "fn3" -> {Collect(3)}

\* the errors an effect over dom can fail with
DomErrs(dom) ==
    CASE dom = "first" -> {Err("A")}
      [] dom = "second" -> {Err("B")}
      [] dom = "secondFn" -> {Err("B")}
      [] OTHER -> Errs

\* the Tasks the caller can build over the values of dom: one that settles
\* inside fork (with a value or an error), one that settles later
Leaves(id, dom) ==
    {NewTask(id, "sync", dom, "res", x) : x \in Dom(dom)}
        \cup {NewTask(id, "sync", dom, "rej", e) : e \in DomErrs(dom)}
        \cup {NewTask(id, "async", dom, "res", JSUndefined)}

(***************************************************************************)
(* The jobs.                                                               *)
(***************************************************************************)
Heap(h) ==
    [cells |-> cells, pending |-> pending, out |-> out, log |-> log, h |-> h, exc |-> NoExc]

Commit(st) ==
    /\ cells' = st.cells
    /\ pending' = st.pending
    /\ out' = st.out
    /\ log' = st.log

\* the heap before anything has run, as seen by code that runs outside a
\* fork call
NewHeap == [cells |-> <<>>, pending |-> <<>>, out |-> <<>>, log |-> <<>>, h |-> 0, exc |-> NoExc]

Commit0(st) ==
    /\ cells = st.cells
    /\ pending = st.pending
    /\ out = st.out
    /\ log = st.log

NumForks == Cardinality({i \in 1..Len(log) : log[i].ev = "top"})

\* no Task (the caller holds nothing to compare prog with, or has not built
\* prog yet)
NoTask == [t |-> "undefined"]

\* the Task the caller's h-th fork call is made on: prog, or twin for the
\* second call when there is one
Program(h) == IF h = 2 /\ twin.t = "Task" THEN twin ELSE prog

\* the caller: prog.fork(err => ..., value => ...)
ForkTop ==
    /\ toFork > 0
    /\ LET h == NumForks + 1
       IN  Commit(Fork(Program(h), Handler(h, "rej"), Handler(h, "res"),
                       Record(Heap(h), [ev |-> "top", h |-> h])))
    /\ toFork' = toFork - 1
    /\ UNCHANGED <<items, prog, twin>>

Remove(seq, i) == SubSeq(seq, 1, i - 1) \o SubSeq(seq, i + 1, Len(seq))

\* the effects still to make a call once pending[i] has made one: an effect
\* of mode "twice" breaks the contract and makes a second call
AfterCall(i) ==
    IF pending[i].mode = "twice" THEN [pending EXCEPT ![i].mode = "async"]
    ELSE Remove(pending, i)

\* the callback of a started effect runs and calls one channel with x
Settle(i, ch, x) ==
    LET p == pending[i]
        st == Record([Heap(p.h) EXCEPT !.pending = AfterCall(i)],
                     [ev |-> "settle", id |-> p.id, h |-> p.h, ch |-> ch, x |-> x])
    IN  /\ Commit(Call(IF ch = "rej" THEN p.reject ELSE p.resolve, x, st))
        /\ UNCHANGED <<items, prog, twin, toFork>>

\* what the effect p can call channel ch with
Produces(p, ch) ==
    IF p.mode = "timer" THEN (IF p.ch = ch THEN {p.x} ELSE {})
    ELSE IF ch = "res" THEN Dom(p.dom) ELSE DomErrs(p.dom)

Succeed == \E i \in 1..Len(pending) : \E x \in Produces(pending[i], "res") : Settle(i, "res", x)

Fail == \E i \in 1..Len(pending) : \E e \in Produces(pending[i], "rej") : Settle(i, "rej", e)

Next == ForkTop \/ Succeed \/ Fail

EmptyHeap ==
    /\ cells = <<>>
    /\ pending = <<>>
    /\ out = <<>>
    /\ log = <<>>

InitHeap ==
    /\ EmptyHeap
    /\ twin = NoTask

(***************************************************************************)
(* ap / apTo: one combination of a value side (id 1) and a function side   *)
(* (id 2), and the README's chain f.apTo(a).apTo(b).apTo(c).               *)
(***************************************************************************)
ApPair(op, V, F) ==
    CASE op = "ap" -> ap(V, F)
      [] op = "apTo" -> apTo(F, V)
      [] op = "flag_ap" -> flag_ap(V, F)
      [] op = "flag_apTo" -> flag_apTo(F, V)

ApChain(a, b, c, f) == apTo(apTo(apTo(f, a), b), c)

InitAp ==
    /\ \/ /\ items \in Leaves(1, "val") \X Leaves(2, "fn1")
          /\ \E op \in {"ap", "apTo", "flag_ap", "flag_apTo"} : prog = ApPair(op, items[1], items[2])
       \/ /\ items \in Leaves(1, "item") \X Leaves(2, "item") \X Leaves(3, "item") \X Leaves(4, "fn3")
          /\ prog = ApChain(items[1], items[2], items[3], items[4])
    /\ toFork = 1
    /\ InitHeap

SpecAp == InitAp /\ [][Next]_vars

(***************************************************************************)
(* The array aggregates over at most MaxItems Tasks of the caller.         *)
(***************************************************************************)
ItemArrays ==
    UNION {{[i \in 1..n |-> NewTask(i, l[i].mode, "item", l[i].ch, l[i].x)] :
                l \in [1..n -> Leaves(0, "item")]} : n \in 0..MaxItems}

InitAll ==
    /\ items \in ItemArrays
    /\ prog = Task_all(items)
    /\ toFork = 1
    /\ InitHeap

SpecAll == InitAll /\ [][Next]_vars

InitAllSeattle ==
    /\ items \in ItemArrays
    /\ prog = Task_allSeattle(items)
    /\ toFork = 1
    /\ InitHeap

SpecAllSeattle == InitAllSeattle /\ [][Next]_vars

InitAllSeq ==
    /\ items \in ItemArrays
    /\ prog = Task_allSeq(items)
    /\ toFork = 1
    /\ InitHeap

SpecAllSeq == InitAllSeq /\ [][Next]_vars

\* the input of a traversal: the array [1, ..., n] and a mapping function f
\* of the caller that sends i to the i-th of n Tasks of the caller
TraverseTasks ==
    UNION {{[i \in 1..n |-> NewTask(i, l[i].mode, "trav", l[i].ch, l[i].x)] :
                l \in [1..n -> Leaves(0, "trav")]} : n \in 0..MaxItems}
TraverseInput(n) == [i \in 1..n |-> Num(i)]
TraverseFn(tasks) == UserFn("f", [x \in {Num(i) : i \in 1..Len(tasks)} |-> tasks[x.n]])

InitTraverseM ==
    /\ items \in TraverseTasks
    /\ prog = Task_arrayTraverseM(TraverseFn(items), TraverseInput(Len(items)))
    /\ toFork = 1
    /\ InitHeap

SpecTraverseM == InitTraverseM /\ [][Next]_vars

\* the state after the caller has built Task.arrayTraverseA(f, [1, ..., n])
InitTraverseA ==
    /\ items \in TraverseTasks
    /\ LET built == Task_arrayTraverseA(TraverseFn(items), TraverseInput(Len(items)), NewHeap)
       IN  /\ prog = built.v
           /\ Commit0(built.st)
    /\ twin = NoTask
    /\ toFork = 1

SpecTraverseA == InitTraverseA /\ [][Next]_vars

(***************************************************************************)
(* The caller builds one Task from two Tasks of their own with one of the  *)
(* constructors and combinators, and forks the result up to MaxForks times.*)
(***************************************************************************)
\* mutant: the constructor runs the execution procedure
Task_constructor_eager(task, st) == Fork(task, Handler(0, "rej"), Handler(0, "res"), st)

\* constructor(public fork) {}: stores the execution procedure, runs nothing
Task_constructor(task, st) == st

\* the caller's functions: on values, on errors, to a Task, and the thunks
\* handed to fromTry and fromLazyPromise
ValueFn == UserFn("f", [x \in LawVals |-> Arr(<<x>>)])
ErrorFn == UserFn("g", [e \in Errs |-> Str(e.message)])
ValueToTask == UserFn("f", [x \in LawVals |-> items[2]])
ErrorToTask == UserFn("g", [e \in Errs |-> items[2]])
Thunk(r) == UserFn("f", [x \in {JSUndefined} |-> r])
LazyPromise == UserFn("lazyPromise", [x \in {JSUndefined} |-> Promise(3, "async", "first", "res", JSUndefined)])

Builds ==
    {items[1], Task_of(Num(1)), Task_rejected(Err("A")),
     fromTry(Thunk(Num(1))), fromTry(Thunk(Throw(Err("A")))),
     fromEither(Left(Err("A"))), fromEither(Right(Num(1))),
     fromLazyPromise(LazyPromise),
     map(items[1], ValueFn), rejectMap(items[1], ErrorFn),
     chain(items[1], ValueToTask), orElse(items[1], ErrorToTask),
     bimap(items[1], ErrorFn, ValueFn), fold(items[1], ErrorFn, ValueFn),
     ap(items[1], Task_of(Collect(1))),
     apTo(apTo(Task_of(Collect(2)), items[1]), items[2]),
     Task_all(items), Task_allSeq(items), Task_allSeattle(items), Task_allSeattleSeq(items)}

Build ==
    /\ prog = NoTask
    /\ \E task \in Builds : \E k \in 0..MaxForks :
          /\ prog' = task
          /\ toFork' = k
          /\ Commit(Task_constructor(task, Heap(0)))
    /\ UNCHANGED <<items, twin>>

InitBuild ==
    /\ items \in {<<a, b>> : a \in Leaves(1, "first"), b \in Leaves(2, "second")}
    /\ prog = NoTask
    /\ toFork = 0
    /\ InitHeap

NextBuild == Build \/ ForkTop \/ Succeed \/ Fail

SpecBuild == InitBuild /\ [][NextBuild]_vars

(***************************************************************************)
(* The functor and monad laws: the caller builds the two sides of a law    *)
(* (prog and twin) over the same Task and functions and forks both.        *)
(***************************************************************************)
\* a Task of the caller with a fixed outcome, settling inside fork or later
LawLeaves(id) ==
    {NewTask(id, mode, "law", "res", v) : mode \in {"sync", "timer"}, v \in LawVals}
        \cup {NewTask(id, mode, "law", "rej", e) : mode \in {"sync", "timer"}, e \in Errs}

\* what a function of the caller handed to chain can return
FnTasks(id) ==
    {Task_of(JSNull), Task_rejected(Err("A")),
     NewTask(id, "timer", "law", "res", Num(1)), NewTask(id, "timer", "law", "rej", Err("B"))}

TaskFns(name, id) == {UserFn(name, table) : table \in [LawVals -> FnTasks(id)]}
ValueFns(name) == {UserFn(name, table) : table \in [LawVals -> LawVals]}

Law(ts, lhs, rhs, st) == [items |-> ts, lhs |-> lhs, rhs |-> rhs, st |-> st]

\* m.chain(f).chain(g)  and  m.chain(x => f(x).chain(g))
Associativity ==
    {Law(<<m>>, chain(chain(m, f), g), chain(m, Closure("kleisli", [f |-> f, g |-> g])), NewHeap) :
        m \in LawLeaves(1), f \in TaskFns("f", 2), g \in TaskFns("g", 3)}

\* Task.of(x).chain(f)  and  f(x)
LeftIdentity ==
    {LET fx == Invoke(f, x, NewHeap)
     IN  Law(<<>>, chain(Task_of(x), f), fx.v, fx.st) : x \in LawVals, f \in TaskFns("f", 2)}

\* m.chain(Task.of)  and  m
RightIdentity ==
    {Law(<<m>>, chain(m, Closure("Task_of", JSUndefined)), m, NewHeap) : m \in LawLeaves(1)}

\* t.map(x => x)  and  t
MapIdentity ==
    {Law(<<t>>, map(t, Closure("identity", JSUndefined)), t, NewHeap) : t \in LawLeaves(1)}

\* t.map(f).map(g)  and  t.map(x => g(f(x)))
MapComposition ==
    {Law(<<t>>, map(map(t, f), g), map(t, Closure("compose", [f |-> f, g |-> g])), NewHeap) :
        t \in LawLeaves(1), f \in ValueFns("f"), g \in ValueFns("g")}

(***************************************************************************)
(* tap / rejectTap: the caller's f returns nothing or a Task.               *)
(***************************************************************************)
\* what the caller's side-effecting function can return
TapResults ==
    {JSUndefined, Task_of(Num(2)), Task_of(JSUndefined), Task_rejected(Err("B")),
     NewTask(2, "timer", "law", "res", Num(2)), NewTask(2, "timer", "law", "rej", Err("B"))}

\* Task.of(v).chain(Task.tap(f))
TapPrograms ==
    {chain(Task_of(v), Closure("tap", UserFn("f", [x \in {v} |-> r]))) :
        v \in LawVals, r \in TapResults}

\* Task.rejected(e).orElse(Task.rejectTap(f))
RejectTapPrograms ==
    {orElse(Task_rejected(e), Closure("rejectTap", UserFn("f", [x \in {e} |-> r]))) :
        e \in Errs, r \in TapResults}

InitTap ==
    /\ items = <<>>
    /\ prog \in TapPrograms \cup RejectTapPrograms
    /\ toFork = MaxForks
    /\ InitHeap

SpecTap == InitTap /\ [][Next]_vars

(***************************************************************************)
(* fromTry: the caller forks Task.fromTry(f) with handlers that return or  *)
(* raise.  fork is called on the fromTry Task itself, so a handler is      *)
(* called from nowhere but fromTry's try block or its catch block.         *)
(***************************************************************************)
\* what the function handed to fromTry does: it returns a value or raises
TryReturns == JSVals \cup {Num(2), Arr(<<>>)} \cup {Throw(e) : e \in Errs}

TryHandlers(h, ch) == {Handler(h, ch), RaisingHandler(h, ch)}

\* prog.fork(reject, resolve) with handlers that may raise
ForkTry ==
    /\ toFork > 0
    /\ LET h == NumForks + 1
       IN  \E reject \in TryHandlers(h, "rej") : \E resolve \in TryHandlers(h, "res") :
              Commit(Fork(prog, reject, resolve, Record(Heap(h), [ev |-> "top", h |-> h])))
    /\ toFork' = toFork - 1
    /\ UNCHANGED <<items, prog, twin>>

InitTry ==
    /\ items = <<>>
    /\ prog \in {fromTry(Thunk(r)) : r \in TryReturns}
    /\ toFork = MaxForks
    /\ InitHeap

NextTry == ForkTry

SpecTry == InitTry /\ [][NextTry]_vars

(***************************************************************************)
(* ap / apTo over sides that may break the contract: a side of mode        *)
(* "twice" calls its handlers twice (the same one or one of each).         *)
(***************************************************************************)
RogueLeaves(id, dom) == Leaves(id, dom) \cup {NewTask(id, "twice", dom, "res", JSUndefined)}

InitRogue ==
    /\ items \in RogueLeaves(1, "first") \X RogueLeaves(2, "fn1")
    /\ \E op \in {"ap", "apTo", "flag_ap", "flag_apTo"} : prog = ApPair(op, items[1], items[2])
    /\ toFork = 1
    /\ InitHeap

SpecRogue == InitRogue /\ [][Next]_vars

(***************************************************************************)
(* Two combinations of the same two sides, forked one after the other:     *)
(* prog and twin.                                                          *)
(***************************************************************************)
\* t.ap(tf)  and  tf.apTo(t)
InitApTwin ==
    /\ items \in Leaves(1, "law") \X Leaves(2, "fn1")
    /\ prog = ap(items[1], items[2])
    /\ twin = apTo(items[2], items[1])
    /\ toFork = 2
    /\ EmptyHeap

SpecApTwin == InitApTwin /\ [][Next]_vars

\* one t.ap(tf) or tf.apTo(t), forked up to MaxForks times
InitApTwice ==
    /\ items \in Leaves(1, "first") \X Leaves(2, "secondFn")
    /\ \E op \in {"ap", "apTo"} : prog = ApPair(op, items[1], items[2])
    /\ toFork = MaxForks
    /\ InitHeap

SpecApTwice == InitApTwice /\ [][Next]_vars

\* arrays of Tasks with fixed outcomes, settling inside fork or later
LawArrays ==
    UNION {{[i \in 1..n |-> NewTask(i, l[i].mode, "law", l[i].ch, l[i].x)] :
                l \in [1..n -> LawLeaves(0)]} : n \in 0..MaxTwinItems}

\* Task.arrayTraverseA(f, arr)  and  Task.all(arr.map(f)); arr.map(f) calls
\* f on every item as well
InitTraverseTwin ==
    /\ items \in LawArrays
    /\ LET f == TraverseFn(items)
           arr == TraverseInput(Len(items))
           built == Task_arrayTraverseA(f, arr, NewHeap)
           mapped == Array_map(f, arr, Len(arr), built.st)
       IN  /\ prog = built.v
           /\ twin = Task_all(mapped.v)
           /\ Commit0(mapped.st)
    /\ toFork = 2

SpecTraverseTwin == InitTraverseTwin /\ [][Next]_vars

\* the six aggregates over arrays of Tasks that complete inside the fork call
\* or later, with null among the values; arrayTraverseA calls f while it
\* builds, the others are built without running anything
AggregateTasks ==
    UNION {{[i \in 1..n |-> NewTask(i, l[i].mode, "law", l[i].ch, l[i].x)] :
                l \in [1..n -> Leaves(0, "law")]} : n \in 0..MaxItems}

InitAggregates ==
    /\ items \in AggregateTasks
    /\ toFork = 1
    /\ twin = NoTask
    /\ \/ /\ prog \in {Task_all(items), Task_allSeq(items), Task_allSeattle(items),
                       Task_allSeattleSeq(items),
                       Task_arrayTraverseM(TraverseFn(items), TraverseInput(Len(items)))}
          /\ EmptyHeap
       \/ LET built == Task_arrayTraverseA(TraverseFn(items), TraverseInput(Len(items)), NewHeap)
          IN  /\ prog = built.v
              /\ Commit0(built.st)

SpecAggregates == InitAggregates /\ [][Next]_vars

\* Task.arrayTraverseA(f, [1, 2]) and Task.arrayTraverseM(f, [1, 2]), forked
\* up to MaxForks times
InitTraverseTwice ==
    /\ items \in {<<a, b>> : a \in Leaves(1, "first"), b \in Leaves(2, "second")}
    /\ toFork = MaxForks
    /\ twin = NoTask
    /\ \/ /\ prog = Task_arrayTraverseM(TraverseFn(items), TraverseInput(Len(items)))
          /\ EmptyHeap
       \/ LET built == Task_arrayTraverseA(TraverseFn(items), TraverseInput(Len(items)), NewHeap)
          IN  /\ prog = built.v
              /\ Commit0(built.st)

SpecTraverseTwice == InitTraverseTwice /\ [][Next]_vars

\* the allSeq of lines 83-88 and the allSeq of lines 501-506 over the same
\* array of Tasks, forked one after the other
InitAllSeqTwin ==
    /\ items \in LawArrays
    /\ prog = Task_allSeqBind(items)
    /\ twin = Task_allSeq(items)
    /\ toFork = 2
    /\ EmptyHeap

SpecAllSeqTwin == InitAllSeqTwin /\ [][Next]_vars

\* tf.apTo(t) with the apTo of lines 185-225 and with the apTo of lines
\* 603-610, over the same two Tasks, forked one after the other
InitApToTwin ==
    /\ items \in Leaves(1, "law") \X Leaves(2, "fn1")
    /\ prog = flag_apTo(items[2], items[1])
    /\ twin = apTo(items[2], items[1])
    /\ toFork = 2
    /\ EmptyHeap

SpecApToTwin == InitApToTwin /\ [][Next]_vars

InitLaws ==
    /\ \E law \in Associativity \cup LeftIdentity \cup RightIdentity
                    \cup MapIdentity \cup MapComposition :
          /\ items = law.items
          /\ prog = law.lhs
          /\ twin = law.rhs
          /\ Commit0(law.st)
    /\ toFork = 2

SpecLaws == InitLaws /\ [][Next]_vars

InitAllSeattleSeq ==
    /\ items \in ItemArrays
    /\ prog = Task_allSeattleSeq(items)
    /\ toFork = 1
    /\ InitHeap

SpecAllSeattleSeq == InitAllSeattleSeq /\ [][Next]_vars

(***************************************************************************)
(* Reading the history.                                                    *)
(***************************************************************************)
ForkIdx(id) == {i \in 1..Len(log) : log[i].ev = "fork" /\ log[i].id = id}
SettleIdx(id) == {i \in 1..Len(log) : log[i].ev = "settle" /\ log[i].id = id}
RejIdx == {i \in 1..Len(log) : log[i].ev = "settle" /\ log[i].ch = "rej"}
Min(S) == CHOOSE i \in S : \A j \in S : i <= j

Succeeded(id) == \E i \in SettleIdx(id) : log[i].ch = "res"
Failed(id) == \E i \in SettleIdx(id) : log[i].ch = "rej"
Outcome(id) == log[Min(SettleIdx(id))].x

OutRej(e) == [h |-> 1, ch |-> "rej", x |-> e]
OutRes(x) == [h |-> 1, ch |-> "res", x |-> x]

\* prog is one ap / apTo whose sides are the caller's Tasks 1 (value) and 2 (function)
IsPair == Len(items) = 2
IsApChain == Len(items) = 4

\* C1: one fork of ap / apTo whose sides settle at most once calls at most
\* one of the caller's two handlers, at most once, in every interleaving.
C1_AtMostOneSettlement == Len(out) <= 1

C1_Witness ==
    /\ IsPair
    /\ Failed(1) /\ Failed(2) /\ Outcome(1) # Outcome(2)
    /\ Len(out) = 1

\* C2: the first failure of a side (in settlement order) is reported in the
\* step in which it happens, with exactly its error, and it stays the only
\* call the caller's handlers ever receive.
C2_FirstFailureWins == RejIdx # {} => out = <<OutRej(log[Min(RejIdx)].x)>>

C2_Witness ==
    /\ IsPair
    /\ Failed(1) /\ Failed(2) /\ Outcome(1) # Outcome(2)
    /\ Min(ForkIdx(1)) < Min(RejIdx) /\ Min(ForkIdx(2)) < Min(RejIdx)
    /\ Min(SettleIdx(2)) < Min(SettleIdx(1))
    /\ out = <<OutRej(Outcome(2))>>

\* C3: whenever both sides of ap / apTo have reported success, the caller
\* has received success exactly once with fn(value), for every value
\* (null, undefined, 0, false and '' included).
C3_BothSucceedApplies ==
    (IsPair /\ Succeeded(1) /\ Succeeded(2)) => out = <<OutRes(Apply(Outcome(2), Outcome(1)))>>

\* what the code does instead: with the synchronize-based ap / apTo the
\* success is reported exactly when the value is neither null nor undefined
\* (the earlier flag-based ap / apTo reports it for every value)
C3_NullValueNeverReported ==
    (IsPair /\ Succeeded(1) /\ Succeeded(2)) =>
        IF prog.op \in {"ap", "apTo"} /\ ~NotNull(Outcome(1))
        THEN out = <<>>
        ELSE out = <<OutRes(Apply(Outcome(2), Outcome(1)))>>

\* the guard record of the combination that forks the caller's Task id
GuardOf(id) == IF IsPair THEN 1 ELSE IF id = 3 THEN 1 ELSE IF id = 2 THEN 2 ELSE 3
GuardIdx(c) == {i \in 1..Len(log) : log[i].ev = "guard" /\ log[i].c = c}
\* C4: one fork of ap / apTo creates the guard before forking either side and
\* forks each side exactly once inside the fork call, whatever the first side
\* did synchronously; in f.apTo(a).apTo(b).apTo(c) every Task is forked
\* before any asynchronous one settles.
C4_BothSidesForked ==
    /\ toFork = 1 => log = <<>>
    /\ toFork = 0 =>
          \A id \in 1..Len(items) :
              /\ Cardinality(ForkIdx(id)) = 1
              /\ Cardinality(GuardIdx(GuardOf(id))) = 1
              /\ Min(GuardIdx(GuardOf(id))) < Min(ForkIdx(id))
              /\ \A other \in 1..Len(items) :
                    (items[other].mode = "async" /\ SettleIdx(other) # {})
                        => Min(ForkIdx(id)) < Min(SettleIdx(other))

C4_Witness ==
    /\ IsApChain
    /\ items[3].mode = "sync" /\ items[3].ch = "rej"
    /\ Len(pending) = 3

(***************************************************************************)
(* The array aggregates.                                                   *)
(***************************************************************************)
N == Len(items)
AllSucceeded == \A i \in 1..N : Succeeded(i)
AllSettled == \A i \in 1..N : SettleIdx(i) # {}
Values == Arr([i \in 1..N |-> Outcome(i)])
SettledBefore(i, j) == SettleIdx(i) # {} /\ (SettleIdx(j) # {} => Min(SettleIdx(i)) < Min(SettleIdx(j)))

\* C5: Task.all reports success exactly when the last pending item has
\* succeeded, once, with the items' values in index order whatever the order
\* of completion.
C5_AllValuesInIndexOrder ==
    /\ (toFork = 0 /\ AllSucceeded) => out = <<OutRes(Values)>>
    /\ \A k \in 1..Len(out) : out[k].ch = "res" => (AllSucceeded /\ Len(out) = 1)

C5_Witness ==
    /\ N = 3
    /\ \A i \in 1..N : items[i].mode = "async"
    /\ AllSucceeded
    /\ SettledBefore(3, 1) /\ SettledBefore(1, 2)
    /\ Outcome(1) # Outcome(2) /\ Outcome(2) # Outcome(3) /\ Outcome(1) # Outcome(3)
    /\ out = <<OutRes(Values)>>

AllSync == \A i \in 1..N : items[i].mode = "sync"
SyncFailing == {i \in 1..N : items[i].mode = "sync" /\ items[i].ch = "rej"}

\* C6: when every item of Task.all settles inside its own fork and some item
\* fails, the aggregate fails exactly once with the error of the failing item
\* of lowest index.
C6_SyncFirstIndexFailure ==
    (toFork = 0 /\ AllSync /\ SyncFailing # {}) => out = <<OutRej(items[Min(SyncFailing)].x)>>

C6_Witness ==
    /\ toFork = 0 /\ AllSync
    /\ SyncFailing = {2, 3}
    /\ items[2].x # items[3].x
    /\ out = <<OutRej(items[2].x)>>

\* C7: Task.all reports exactly one failure, that of the item that failed
\* first in settlement order (whatever its index), in the step of that
\* failure and without waiting for pending items; later failures and
\* successes never reach the caller.
C7_FirstSettledFailure ==
    \A i \in 1..N :
        (Failed(i) /\ \A j \in 1..N \ {i} : Failed(j) => Min(SettleIdx(i)) < Min(SettleIdx(j)))
            => out = <<OutRej(Outcome(i))>>

C7_Witness ==
    /\ N = 3
    /\ \A i \in 1..N : items[i].mode = "async"
    /\ Failed(3) /\ Failed(1) /\ Outcome(3) # Outcome(1)
    /\ SettledBefore(3, 1)
    /\ Len(pending) = 1
    /\ out = <<OutRej(Outcome(3))>>

\* C8: one fork of Task.all forks every item exactly once, inside the fork
\* call, also the items that follow an item that failed synchronously; no
\* later step forks anything.
C8_EveryItemForkedOnce ==
    /\ toFork = 1 => log = <<>>
    /\ toFork = 0 => \A i \in 1..N : Cardinality(ForkIdx(i)) = 1

C8_Witness ==
    /\ N = 3 /\ toFork = 0
    /\ items[1].mode = "sync" /\ items[1].ch = "rej"
    /\ Len(pending) = 2

Tagged(i) == IF Failed(i) THEN Left(Outcome(i)) ELSE Right(Outcome(i))

\* C9: Task.allSeattle never calls the failure handler; it reports success
\* exactly once, in the step in which the last item settles, with one entry
\* per item in index order: Left(err) for a failed item, Right(value) for a
\* succeeded one.
C9_AllSeattleNeverFails ==
    /\ \A k \in 1..Len(out) : out[k].ch = "res"
    /\ (toFork = 0 /\ AllSettled) => out = <<OutRes(Arr([i \in 1..N |-> Tagged(i)]))>>
    /\ ~(toFork = 0 /\ AllSettled) => out = <<>>

C9_Witness ==
    /\ N = 3
    /\ \A i \in 1..N : items[i].mode = "async"
    /\ Succeeded(1) /\ Failed(2) /\ Failed(3) /\ Outcome(2) # Outcome(3)
    /\ SettledBefore(3, 1)
    /\ Len(out) = 1

\* C10: Task.allSeq forks item 1 in the fork call and item i+1 in the step in
\* which item i reports success, never before; a failing item fails the
\* aggregate with its error and no later item is ever forked; when all
\* succeed the value is the items' values in index order.
C10_AllSeqOneAtATime ==
    /\ toFork = 1 => log = <<>>
    /\ \A i \in 1..N :
          /\ Cardinality(ForkIdx(i)) <= 1
          /\ ForkIdx(i) # {} <=> (toFork = 0 /\ \A j \in 1..(i - 1) : Succeeded(j))
          /\ (i > 1 /\ ForkIdx(i) # {}) => Min(SettleIdx(i - 1)) < Min(ForkIdx(i))
          /\ Failed(i) => out = <<OutRej(Outcome(i))>>
    /\ (toFork = 0 /\ AllSucceeded) => out = <<OutRes(Values)>>
    /\ (\A i \in 1..N : ~Failed(i)) /\ ~(toFork = 0 /\ AllSucceeded) => out = <<>>

C10_Witness ==
    /\ N = 3
    /\ \A i \in 1..N : items[i].mode = "async"
    /\ Succeeded(1) /\ Failed(2)
    /\ ForkIdx(3) = {}
    /\ out = <<OutRej(Outcome(2))>>

SeattleValues == Arr([i \in 1..N |-> Tagged(i)])

\* C11: Task.allSeattleSeq forks item 1 in the fork call and item i+1 in the
\* step in which item i settles (with success or failure), never before; it
\* never calls the failure handler and reports success once, after the last
\* item, with Left(err) / Right(value) per item in index order.
C11_AllSeattleSeqInIndexOrder ==
    /\ \A i \in 1..N :
          /\ Cardinality(ForkIdx(i)) <= 1
          /\ ForkIdx(i) # {} <=> (toFork = 0 /\ \A j \in 1..(i - 1) : SettleIdx(j) # {})
    /\ \A k \in 1..Len(out) : out[k].ch = "res"
    /\ (toFork = 0 /\ AllSettled) => out = <<OutRes(SeattleValues)>>
    /\ ~(toFork = 0 /\ AllSettled) => out = <<>>

\* what the code does instead: the traversal is sequential but starts with
\* the last item; item i is forked when every item after it has settled.
\* The reported value is as claimed.
C11_ForksInReverseOrder ==
    /\ \A i \in 1..N :
          /\ Cardinality(ForkIdx(i)) <= 1
          /\ ForkIdx(i) # {} <=> (toFork = 0 /\ \A j \in (i + 1)..N : SettleIdx(j) # {})
    /\ \A k \in 1..Len(out) : out[k].ch = "res"
    /\ (toFork = 0 /\ AllSettled) => out = <<OutRes(SeattleValues)>>
    /\ ~(toFork = 0 /\ AllSettled) => out = <<>>

CallIdx(name, x) == {i \in 1..Len(log) : log[i].ev = "call" /\ log[i].fn = name /\ log[i].x = x}

\* the sequencing and failure part of C12: f is called on item 1 in the fork
\* call and on item i+1 in the step in which item i's Task reports success,
\* once, and the Task it returns is forked at once; a failing item fails the
\* aggregate with its error and f is never called for a later item.
TraverseMOneAtATime ==
    /\ toFork = 1 => log = <<>>
    /\ \A i \in 1..N :
          /\ Cardinality(CallIdx("f", Num(i))) <= 1
          /\ Cardinality(ForkIdx(i)) <= 1
          /\ CallIdx("f", Num(i)) # {} <=> (toFork = 0 /\ \A j \in 1..(i - 1) : Succeeded(j))
          /\ CallIdx("f", Num(i)) # {} <=> ForkIdx(i) # {}
          /\ ForkIdx(i) # {} => Min(ForkIdx(i)) = Min(CallIdx("f", Num(i))) + 1
          /\ (i > 1 /\ ForkIdx(i) # {}) => Min(SettleIdx(i - 1)) < Min(CallIdx("f", Num(i)))
          /\ Failed(i) => out = <<OutRej(Outcome(i))>>
    /\ (\A i \in 1..N : ~Failed(i)) /\ ~(toFork = 0 /\ AllSucceeded) => out = <<>>
    /\ Len(out) <= 1

\* C12: Task.arrayTraverseM is strictly sequential and fails fast as above,
\* and when every item's Task succeeds the aggregate succeeds with the mapped
\* values in index order.
C12_TraverseMSequential ==
    /\ TraverseMOneAtATime
    /\ (toFork = 0 /\ AllSucceeded) => out = <<OutRes(Values)>>

\* what the code does instead: xs.concat(x) spreads a mapped value that is an
\* array, so the aggregate's value is the concatenation of the mapped values
\* taken as arrays where they are arrays
RECURSIVE ConcatAll(_)
ConcatAll(n) == IF n = 0 THEN Arr(<<>>) ELSE concat(ConcatAll(n - 1), Outcome(n))

C12_ArrayValuesAreSpread ==
    /\ TraverseMOneAtATime
    /\ (toFork = 0 /\ AllSucceeded) => out = <<OutRes(ConcatAll(N))>>

AsyncItems == {i \in 1..N : items[i].mode # "sync"}
FirstFailed(i) == Failed(i) /\ \A j \in 1..N \ {i} : Failed(j) => Min(SettleIdx(i)) < Min(SettleIdx(j))

\* the forking and failure part of C13: the fork call forks every mapped
\* Task once, in index order, before any asynchronous one settles, and the
\* first failure in settlement order is reported at once and alone.
TraverseAForksAll ==
    /\ toFork = 1 => \A i \in 1..N : ForkIdx(i) = {}
    /\ toFork = 0 => \A i \in 1..N :
          /\ Cardinality(ForkIdx(i)) = 1
          /\ \A j \in AsyncItems : SettleIdx(j) # {} => Min(ForkIdx(i)) < Min(SettleIdx(j))
          /\ i > 1 => Min(ForkIdx(i - 1)) < Min(ForkIdx(i))
    /\ \A i \in 1..N : FirstFailed(i) => out = <<OutRej(Outcome(i))>>
    /\ \A k \in 1..Len(out) : out[k].ch = "res" => (AllSucceeded /\ Len(out) = 1)

\* C13: one fork of Task.arrayTraverseA forks every mapped Task before any
\* asynchronous one settles; all succeed => success with the mapped values
\* in index order; some fail => exactly one failure, the first captured.
C13_TraverseAParallel ==
    /\ TraverseAForksAll
    /\ (toFork = 0 /\ AllSucceeded) => out = <<OutRes(Values)>>

\* what the code does instead: a mapped value that is null or undefined is
\* the value side of an apTo, so the success is never reported
C13_NullMappedValueNeverReported ==
    /\ TraverseAForksAll
    /\ (toFork = 0 /\ AllSucceeded) =>
          IF \A i \in 1..N : NotNull(Outcome(i)) THEN out = <<OutRes(Values)>> ELSE out = <<>>

\* C14: building a Task with a constructor or a combinator runs nothing: as
\* long as fork has not been called on the result no Task has been forked,
\* no function of the caller has been called, no effect is pending and no
\* handler has been called.
C14_BuildRunsNothing ==
    NumForks = 0 => (log = <<>> /\ out = <<>> /\ pending = <<>> /\ cells = <<>>)

C14_Witness ==
    /\ prog = Task_all(items)
    /\ items[1].mode = "sync" /\ items[2].mode = "sync"
    /\ toFork = 0 /\ NumForks = 0

\* the history of the caller's h-th fork call
ForkIdxH(id, h) == {i \in ForkIdx(id) : log[i].h = h}
SettleIdxH(id, h) == {i \in SettleIdx(id) : log[i].h = h}
CallIdxH(name, h) == {i \in 1..Len(log) : log[i].ev = "call" /\ log[i].fn = name /\ log[i].h = h}
SucceededH(id, h) == \E i \in SettleIdxH(id, h) : log[i].ch = "res"
FailedH(id, h) == \E i \in SettleIdxH(id, h) : log[i].ch = "rej"
OutcomeH(id, h) == log[Min(SettleIdxH(id, h))].x
Report(ch, x) == [ch |-> ch, x |-> x]
OutH(h) ==
    LET mine == SelectSeq(out, LAMBDA o : o.h = h)
    IN  [i \in 1..Len(mine) |-> Report(mine[i].ch, mine[i].x)]

\* the caller's Tasks that every fork of prog forks inside the fork call
EntryItems ==
    IF prog \in {items[1], map(items[1], ValueFn), rejectMap(items[1], ErrorFn),
                 chain(items[1], ValueToTask), orElse(items[1], ErrorToTask),
                 bimap(items[1], ErrorFn, ValueFn), fold(items[1], ErrorFn, ValueFn),
                 Task_allSeq(items)} THEN {1}
    ELSE IF prog \in {apTo(apTo(Task_of(Collect(2)), items[1]), items[2]),
                      Task_all(items), Task_allSeattle(items)} THEN {1, 2}
    ELSE IF prog = ap(items[1], Task_of(Collect(1))) THEN {1}
    ELSE IF prog = Task_allSeattleSeq(items) THEN {2}
    ELSE {}

\* C15: nothing is memoized: each of the k fork calls made on a Task runs
\* its execution procedure again (the caller's Tasks it is built from are
\* forked once more, the function handed to fromTry / fromLazyPromise is
\* called once more), and the handlers of a fork call receive the outcome of
\* that call's own run.
C15_EveryForkRunsAgain ==
    \A h \in 1..NumForks :
        /\ \A id \in EntryItems : Cardinality(ForkIdxH(id, h)) = 1
        /\ \A id \in {1, 2} : Cardinality(ForkIdxH(id, h)) <= 1
        /\ prog.op = "fromTry" => Cardinality(CallIdxH("f", h)) = 1
        /\ prog.op = "fromLazyPromise" => Cardinality(CallIdxH("lazyPromise", h)) = 1
        /\ prog = items[1] =>
              OutH(h) = IF SettleIdxH(1, h) = {} THEN <<>>
                        ELSE <<Report(log[Min(SettleIdxH(1, h))].ch, OutcomeH(1, h))>>
        /\ prog = map(items[1], ValueFn) =>
              OutH(h) = IF SettleIdxH(1, h) = {} THEN <<>>
                        ELSE IF FailedH(1, h) THEN <<Report("rej", OutcomeH(1, h))>>
                        ELSE <<Report("res", Arr(<<OutcomeH(1, h)>>))>>

C15_Witness ==
    /\ prog = map(items[1], ValueFn)
    /\ NumForks = 2
    /\ OutH(1) = <<Report("res", Arr(<<Num(1)>>))>>
    /\ OutH(2) = <<Report("rej", Err("A"))>>

\* what the handlers of fork call h have received if the outcome of the
\* caller's Task id is forwarded unchanged
Forwarded(id, h) ==
    IF SettleIdxH(id, h) = {} THEN <<>>
    ELSE <<Report(log[Min(SettleIdxH(id, h))].ch, OutcomeH(id, h))>>

\* C19: in each fork of m.chain(f), f is called exactly when m reports
\* success, once, in that step and with m's value; the Task it returns is
\* forked in the same step and its outcome is forwarded unchanged; a failure
\* of m is passed through unchanged and f is not called.
C19_ChainCallsOnSuccessOnly ==
    prog = chain(items[1], ValueToTask) =>
        \A h \in 1..NumForks :
            LET calls == CallIdxH("f", h)
            IN  /\ Cardinality(calls) <= 1
                /\ calls # {} <=> SucceededH(1, h)
                /\ calls # {} =>
                      /\ Min(calls) = Min(SettleIdxH(1, h)) + 1
                      /\ log[Min(calls)].x = OutcomeH(1, h)
                      /\ ForkIdxH(2, h) = {Min(calls) + 1}
                /\ calls = {} => ForkIdxH(2, h) = {}
                /\ OutH(h) = IF FailedH(1, h) THEN <<Report("rej", OutcomeH(1, h))>>
                             ELSE Forwarded(2, h)

C19_Witness ==
    /\ prog = chain(items[1], ValueToTask)
    /\ items[1].mode = "async" /\ items[2].mode = "async"
    /\ SucceededH(1, 1) /\ FailedH(2, 1)
    /\ OutH(1) = <<Report("rej", OutcomeH(2, 1))>>
    /\ FailedH(1, 2) /\ CallIdxH("f", 2) = {}
    /\ OutH(2) = <<Report("rej", OutcomeH(1, 2))>>

\* C20: in each fork of m.orElse(g), g is called exactly when m reports
\* failure, once, in that step and with m's error; the recovery Task it
\* returns is forked in the same step and its outcome, success or a new
\* failure, is forwarded unchanged; a success of m is passed through
\* unchanged and g is not called.
C20_OrElseCallsOnFailureOnly ==
    prog = orElse(items[1], ErrorToTask) =>
        \A h \in 1..NumForks :
            LET calls == CallIdxH("g", h)
            IN  /\ Cardinality(calls) <= 1
                /\ calls # {} <=> FailedH(1, h)
                /\ calls # {} =>
                      /\ Min(calls) = Min(SettleIdxH(1, h)) + 1
                      /\ log[Min(calls)].x = OutcomeH(1, h)
                      /\ ForkIdxH(2, h) = {Min(calls) + 1}
                /\ calls = {} => ForkIdxH(2, h) = {}
                /\ OutH(h) = IF SucceededH(1, h) THEN <<Report("res", OutcomeH(1, h))>>
                             ELSE Forwarded(2, h)

C20_Witness ==
    /\ prog = orElse(items[1], ErrorToTask)
    /\ items[1].mode = "async" /\ items[2].mode = "async"
    /\ FailedH(1, 1) /\ FailedH(2, 1) /\ OutcomeH(1, 1) # OutcomeH(2, 1)
    /\ OutH(1) = <<Report("rej", OutcomeH(2, 1))>>
    /\ FailedH(1, 2) /\ SucceededH(2, 2)
    /\ OutH(2) = <<Report("res", OutcomeH(2, 2))>>

\* both sides of the law have been forked and nothing is pending
Quiet == toFork = 0 /\ pending = <<>>
\* what fork call h did: its forks, settlements and calls of the caller's
\* functions, in order
TraceH(h) ==
    LET mine == SelectSeq(log, LAMBDA e : e.h = h /\ e.ev # "top")
    IN  [i \in 1..Len(mine) |-> [mine[i] EXCEPT !.h = 0]]
IsAssociativity == prog.op = "chain" /\ prog.this.op = "chain"
IsLeftIdentity == prog.op = "chain" /\ prog.this.op = "of"
IsRightIdentity == prog.op = "chain" /\ prog.f.code = "Task_of"
IsMapIdentity == prog.op = "map" /\ prog.f.code = "identity"
IsMapComposition == prog.op = "map" /\ prog.this.op = "map"

\* C16: m.chain(f).chain(g) and m.chain(x => f(x).chain(g)) report the same
\* channel with the same payload and make the same forks and calls of f and
\* g in the same order.
C16_ChainAssociative ==
    (IsAssociativity /\ Quiet) => (OutH(1) = OutH(2) /\ TraceH(1) = TraceH(2))

C16_Witness ==
    /\ IsAssociativity /\ Quiet
    /\ items[1].mode = "timer"
    /\ CallIdxH("f", 1) # {} /\ CallIdxH("g", 1) # {}
    /\ ForkIdxH(2, 1) # {} /\ ForkIdxH(3, 1) # {}
    /\ OutH(2) = <<Report("rej", Err("B"))>>

\* C17: Task.of(x).chain(f) reports what f(x) reports, and m.chain(Task.of)
\* reports what m reports and forks m exactly once.
C17_ChainIdentities ==
    /\ (IsLeftIdentity /\ Quiet) => OutH(1) = OutH(2)
    /\ (IsRightIdentity /\ Quiet) =>
          /\ OutH(1) = OutH(2)
          /\ Cardinality(ForkIdxH(1, 1)) = 1
          /\ Len(OutH(1)) = 1

C17_Witness ==
    /\ IsRightIdentity /\ Quiet
    /\ items[1].mode = "timer"
    /\ OutH(1) = <<Report("rej", Err("A"))>>
    /\ OutH(2) = <<Report("rej", Err("A"))>>

C17_LeftWitness ==
    /\ IsLeftIdentity /\ Quiet
    /\ OutH(1) = <<Report("rej", Err("B"))>>
    /\ OutH(2) = <<Report("rej", Err("B"))>>

\* C18: t.map(x => x) reports what t reports, t.map(f).map(g) reports what
\* t.map(x => g(f(x))) reports, and a failure of t passes through with its
\* error and without a call of f or g.
C18_MapFunctorLaws ==
    /\ ((IsMapIdentity \/ IsMapComposition) /\ Quiet) =>
          /\ OutH(1) = OutH(2)
          /\ Len(OutH(1)) = 1
    /\ (IsMapIdentity \/ IsMapComposition) =>
          \A h \in 1..NumForks :
              FailedH(1, h) => /\ OutH(h) = <<Report("rej", OutcomeH(1, h))>>
                               /\ CallIdxH("f", h) = {} /\ CallIdxH("g", h) = {}

C18_Witness ==
    /\ IsMapComposition /\ Quiet
    /\ items[1].mode = "timer"
    /\ OutH(1) = <<Report("res", JSNull)>>
    /\ OutcomeH(1, 1) = Num(1)
    /\ Cardinality(CallIdxH("f", 1)) = 1 /\ Cardinality(CallIdxH("g", 2)) = 1

IsTap == prog.op = "chain"
IsRejectTap == prog.op = "orElse"
\* what the caller's f returns for the value / error the program starts from
TapInput == IF IsTap THEN prog.this.r ELSE prog.this.err
TapReturn == (IF IsTap THEN prog.f ELSE prog.g).captured.table[TapInput]
\* f is called once per fork call, with the value / error
TapCallsOnce ==
    \A h \in 1..NumForks :
        /\ Cardinality(CallIdxH("f", h)) = 1
        /\ \A i \in CallIdxH("f", h) : log[i].x = TapInput

\* C22: each fork of Task.of(v).chain(Task.tap(f)) calls f once with v and
\* reports success with v itself when f returns nothing or a Task that
\* succeeds, and failure with f's error when f returns a Task that fails.
C22_TapKeepsValue ==
    IsTap =>
        /\ TapCallsOnce
        /\ \A h \in 1..NumForks :
              OutH(h) = IF TapReturn.t # "Task" \/ TapReturn.op = "of"
                        THEN <<Report("res", TapInput)>>
                        ELSE IF TapReturn.op = "rejected"
                        THEN <<Report("rej", TapReturn.err)>>
                        ELSE IF SettleIdxH(2, h) = {} THEN <<>>
                        ELSE IF SucceededH(2, h) THEN <<Report("res", TapInput)>>
                        ELSE <<Report("rej", OutcomeH(2, h))>>

C22_Witness ==
    /\ IsTap /\ NumForks = 1
    /\ TapInput = Num(1)
    /\ TapReturn.t = "Task" /\ TapReturn.op = "new"
    /\ SucceededH(2, 1) /\ OutcomeH(2, 1) = Num(2)
    /\ OutH(1) = <<Report("res", Num(1))>>

\* C23: each fork of Task.rejected(e).orElse(Task.rejectTap(f)) calls f once
\* with e and reports failure with e, whatever f returns (nothing, a Task
\* that fails, a Task that succeeds); it never reports success.
C23_RejectTapKeepsError ==
    IsRejectTap =>
        /\ TapCallsOnce
        /\ \A h \in 1..NumForks :
              /\ \A k \in 1..Len(OutH(h)) : OutH(h)[k] = Report("rej", TapInput)
              /\ Len(OutH(h)) <= 1
              /\ (TapReturn.t = "Task" /\ TapReturn.op = "new" /\ SettleIdxH(2, h) = {}) <=> OutH(h) = <<>>

\* what the code does: the error is kept when f returns nothing or a Task
\* that fails; when f returns a Task that succeeds, that success is reported
C23_RejectTapSuccessPassesThrough ==
    IsRejectTap =>
        /\ TapCallsOnce
        /\ \A h \in 1..NumForks :
              OutH(h) = IF TapReturn.t # "Task" \/ TapReturn.op = "rejected"
                        THEN <<Report("rej", TapInput)>>
                        ELSE IF TapReturn.op = "of"
                        THEN <<Report("res", TapReturn.r)>>
                        ELSE IF SettleIdxH(2, h) = {} THEN <<>>
                        ELSE IF FailedH(2, h) THEN <<Report("rej", TapInput)>>
                        ELSE <<Report("res", OutcomeH(2, h))>>

TryReturn == prog.f.table[JSUndefined]

\* C24: each fork of Task.fromTry(f) calls f once and calls exactly one
\* handler, once: the success handler with f's value when f returns, the
\* failure handler with what f raised when f raises; also when the handlers
\* themselves raise.
C24_FromTryOneChannel ==
    \A h \in 1..NumForks :
        /\ Cardinality(CallIdxH("f", h)) = 1
        /\ OutH(h) = IF TryReturn.t = "throw" THEN <<Report("rej", TryReturn.error)>>
                     ELSE <<Report("res", TryReturn)>>

\* what the code does: a success handler that raises is followed by a call
\* of the failure handler with what the success handler raised
C24_RaisingHandlerIsCaught ==
    \A h \in 1..NumForks :
        /\ Cardinality(CallIdxH("f", h)) = 1
        /\ \/ OutH(h) = IF TryReturn.t = "throw" THEN <<Report("rej", TryReturn.error)>>
                        ELSE <<Report("res", TryReturn)>>
           \/ /\ TryReturn.t # "throw"
              /\ OutH(h) = <<Report("res", TryReturn), Report("rej", HandlerError)>>

\* C25: whatever the sides of ap / apTo do (a side may call its handlers
\* twice), the caller's handlers are called at most once in total: the first
\* call that settles the combination wins, later calls are ignored.
C25_DefensiveAgainstRepeats == \A h \in 1..NumForks : Len(OutH(h)) <= 1

\* what the code does: only a failure latches the guard.  After a reported
\* failure nothing more is reported, but a repeated success is reported
\* again and a failure that follows a reported success is reported too.
C25_OnlyFailureLatches ==
    \A k \in 1..Len(out) : out[k].ch = "rej" => k = Len(out)

\* the forks, or the settlements, of the caller's Tasks in fork call h
EventsH(h, ev) ==
    LET mine == SelectSeq(log, LAMBDA e : e.h = h /\ e.ev = ev)
    IN  [i \in 1..Len(mine) |-> [mine[i] EXCEPT !.h = 0]]

\* C26: t.ap(tf) and tf.apTo(t) fork the value side and the function side in
\* the same order, and when their sides complete in the same way (same
\* order, channels and payloads) they report the same thing or both nothing.
C26_ApAndApToAgree ==
    /\ NumForks = 2 => EventsH(1, "fork") = EventsH(2, "fork")
    /\ (Quiet /\ EventsH(1, "settle") = EventsH(2, "settle")) => OutH(1) = OutH(2)

C26_Witness ==
    /\ Quiet
    /\ items[1].mode = "async" /\ items[2].mode = "async"
    /\ EventsH(1, "settle") = EventsH(2, "settle")
    /\ EventsH(1, "fork") = <<[ev |-> "fork", id |-> 1, h |-> 0], [ev |-> "fork", id |-> 2, h |-> 0]>>
    /\ SucceededH(1, 1) /\ SucceededH(2, 1) /\ OutcomeH(1, 1) = Num(1)
    /\ OutH(1) = <<Report("res", Arr(<<Num(1)>>))>>
    /\ OutH(2) = OutH(1)

\* the settlements of fork call h that are failures
RejIdxH(h) == {i \in RejIdx : log[i].h = h}

\* C27: every fork call of one ap / apTo has a guard record of its own: the
\* handlers of a fork call receive at most one report, and it is decided by
\* the completions of that call's own sides alone (the first failure among
\* them, else fn(value) once both have succeeded), however the completions
\* of the fork calls interleave.
C27_GuardPerFork ==
    /\ Len(cells) = NumForks
    /\ \A h \in 1..NumForks :
          OutH(h) = IF RejIdxH(h) # {} THEN <<Report("rej", log[Min(RejIdxH(h))].x)>>
                    ELSE IF SucceededH(1, h) /\ SucceededH(2, h)
                    THEN <<Report("res", Apply(OutcomeH(2, h), OutcomeH(1, h)))>>
                    ELSE <<>>

C27_Witness ==
    /\ NumForks >= 2
    /\ items[1].mode = "async" /\ items[2].mode = "async"
    /\ FailedH(1, 1) /\ SucceededH(1, 2) /\ SucceededH(2, 2)
    /\ Min(SettleIdxH(1, 2)) < Min(SettleIdxH(1, 1))
    /\ Min(SettleIdxH(1, 1)) < Min(SettleIdxH(2, 2))
    /\ OutH(1) = <<Report("rej", Err("A"))>>
    /\ OutH(2) = <<Report("res", Arr(<<Num(1)>>))>>

\* C28: Task.arrayTraverseA(f, arr) and Task.all(arr.map(f)) report the same
\* thing, or both nothing, whenever the mapped Tasks complete in the same
\* way in both, for every value the mapped Tasks carry.
C28_TraverseALikeAll ==
    (Quiet /\ EventsH(1, "settle") = EventsH(2, "settle")) => OutH(1) = OutH(2)

\* what the code does: the two agree unless every mapped Task succeeds and
\* one of the values is null or undefined; then all reports the values and
\* arrayTraverseA reports nothing
C28_AgreeOnNonNullValues ==
    (Quiet /\ EventsH(1, "settle") = EventsH(2, "settle")) =>
        IF \A i \in 1..N : SucceededH(i, 1) /\ NotNull(OutcomeH(i, 1))
        THEN OutH(1) = OutH(2) /\ OutH(2) = <<Report("res", Arr([i \in 1..N |-> OutcomeH(i, 2)]))>>
        ELSE IF \A i \in 1..N : SucceededH(i, 1)
        THEN OutH(1) = <<>> /\ OutH(2) = <<Report("res", Arr([i \in 1..N |-> OutcomeH(i, 2)]))>>
        ELSE OutH(1) = OutH(2) /\ Len(OutH(2)) = 1 /\ OutH(2)[1].ch = "rej"

IsAll == prog = Task_all(items)
IsTraverseA ==
    prog = Task_arrayTraverseA(TraverseFn(items), TraverseInput(Len(items)), NewHeap).v
SucceededOnly == \A i \in 1..Len(out) : out[i].ch = "res" => \A id \in 1..Len(items) : Succeeded(id)

\* C29: every aggregate reports exactly once when every Task it forks
\* completes exactly once, whatever the values and errors: never twice, and
\* once by the time the fork call is made and no started effect is left to
\* complete (from then on no step is possible); and all and arrayTraverseA
\* report success only when every item has succeeded.
C29_AggregatesSettleOnce ==
    /\ Len(out) <= 1
    /\ Quiet => Len(out) = 1
    /\ (IsAll \/ IsTraverseA) => SucceededOnly

\* what the code does: no aggregate reports twice, and all and
\* arrayTraverseA report success only when every item has succeeded
C29_AtMostOnce == Len(out) <= 1 /\ ((IsAll \/ IsTraverseA) => SucceededOnly)

\* what the code does: every aggregate reports, except arrayTraverseA when
\* every mapped Task succeeds and one of the values is null or undefined
C29_SettleUnlessNullInTraverseA ==
    Quiet =>
        \/ Len(out) = 1
        \/ /\ IsTraverseA
           /\ \A id \in 1..Len(items) : Succeeded(id)
           /\ \E id \in 1..Len(items) : ~NotNull(Outcome(id))

IsTraverseM == prog = Task_arrayTraverseM(TraverseFn(items), TraverseInput(Len(items)))
\* the arguments of the calls of f made in the caller's h-th fork call and
\* in the steps that follow from it (h = 0: while the Task was built)
FCalls(h) ==
    LET mine == SelectSeq(log, LAMBDA e : e.ev = "call" /\ e.fn = "f" /\ e.h = h)
    IN  [i \in 1..Len(mine) |-> mine[i].x]
TopIdx(h) == CHOOSE i \in 1..Len(log) : log[i].ev = "top" /\ log[i].h = h

\* C30: arrayTraverseA calls f once per item, in index order, while it
\* builds the Task, and no fork calls f again: every fork forks the same
\* mapped Tasks; arrayTraverseM calls f never while it builds and anew in
\* every fork: on the first item inside the fork call, on the next item when
\* the Task mapped from the item before succeeds in that fork.
C30_WhenTheMappingFunctionRuns ==
    /\ IsTraverseA =>
          /\ FCalls(0) = TraverseInput(Len(items))
          /\ \A h \in 1..NumForks :
                /\ FCalls(h) = <<>>
                /\ \A i \in 1..Len(items) : Cardinality(ForkIdxH(i, h)) = 1
    /\ IsTraverseM =>
          /\ FCalls(0) = <<>>
          /\ \A h \in 1..NumForks :
                /\ FCalls(h) = [i \in 1..Len(FCalls(h)) |-> Num(i)]
                /\ CallIdxH("f", h) # {} /\ Min(CallIdxH("f", h)) = TopIdx(h) + 1
                /\ \A i \in 1..Len(items) :
                      /\ Cardinality(ForkIdxH(i, h)) = (IF i <= Len(FCalls(h)) THEN 1 ELSE 0)
                      /\ i + 1 <= Len(items) => (i + 1 <= Len(FCalls(h)) <=> SucceededH(i, h))

C30_Witness ==
    /\ IsTraverseA /\ NumForks >= 2
    /\ items[1].mode = "async" /\ items[2].mode = "async"
    /\ SucceededH(1, 1) /\ FailedH(1, 2) /\ SucceededH(2, 1) /\ SucceededH(2, 2)

C30_TraverseMWitness ==
    /\ IsTraverseM /\ NumForks >= 2
    /\ items[1].mode = "async"
    /\ FCalls(1) = <<Num(1), Num(2)>> /\ FCalls(2) = <<Num(1), Num(2)>>

\* the six aggregates of the empty array (the traversals with any f)
EmptyAggregates ==
    {Task_all(<<>>), Task_allSeq(<<>>), Task_allSeattle(<<>>), Task_allSeattleSeq(<<>>),
     Task_arrayTraverseM(TraverseFn(<<>>), <<>>),
     Task_arrayTraverseA(TraverseFn(<<>>), <<>>, NewHeap).v}

\* C31: on the empty array each of the six aggregates reports success with
\* the empty array inside the fork call, once, and never calls the failure
\* handler; the traversals call f neither while they are built nor in the
\* fork, and nothing is started that could report later.
C31_EmptyInputSucceedsAtOnce ==
    Len(items) = 0 =>
        /\ \A agg \in EmptyAggregates : agg = prog
        /\ Task_arrayTraverseA(TraverseFn(<<>>), <<>>, NewHeap).st = NewHeap
        /\ toFork = 1 => out = <<>> /\ log = <<>>
        /\ toFork = 0 =>
              /\ out = <<OutRes(Arr(<<>>))>>
              /\ pending = <<>>
              /\ log = <<[ev |-> "top", h |-> 1]>>

C31_Witness == Len(items) = 0 /\ toFork = 0 /\ out = <<OutRes(Arr(<<>>))>>

\* the ids of the caller's Tasks forked in fork call h, in order
ForkedH(h) ==
    LET mine == EventsH(h, "fork")
    IN  [i \in 1..Len(mine) |-> mine[i].id]
FailingItems == {i \in 1..N : items[i].ch = "rej"}
Max(S) == CHOOSE i \in S : \A j \in S : j <= i
RECURSIVE Down(_, _)
Down(hi, lo) == IF hi < lo THEN <<>> ELSE <<hi>> \o Down(hi - 1, lo)

\* C32: the allSeq of lines 83-88 and the allSeq of lines 501-506 fork the
\* items in the same order, fork the same items and report the same
\* outcome, for every array of Tasks.
C32_AllSeqVariantsAgree ==
    Quiet => ForkedH(1) = ForkedH(2) /\ OutH(1) = OutH(2)

\* what the code does: the variant of lines 83-88 forks the last item first
\* and goes down to the last failing item, whose error it reports; the
\* variant of lines 501-506 forks the first item first and goes up to the
\* first failing item, whose error it reports; when every item succeeds
\* both report the values in index order
C32_BindVariantRunsBackwards ==
    Quiet =>
        IF FailingItems = {}
        THEN /\ ForkedH(1) = Down(N, 1)
             /\ ForkedH(2) = [i \in 1..N |-> i]
             /\ OutH(1) = OutH(2)
             /\ OutH(2) = <<Report("res", Arr([i \in 1..N |-> items[i].x]))>>
        ELSE /\ ForkedH(1) = Down(N, Max(FailingItems))
             /\ ForkedH(2) = [i \in 1..Min(FailingItems) |-> i]
             /\ OutH(1) = <<Report("rej", items[Max(FailingItems)].x)>>
             /\ OutH(2) = <<Report("rej", items[Min(FailingItems)].x)>>

BothAsync == items[1].mode = "async" /\ items[2].mode = "async"
BothSync == items[1].mode = "sync" /\ items[2].mode = "sync"
\* both sides complete in fork call 2 as they did in fork call 1: same
\* channel and payload, and the same side first where the timing is free
SameCompletions ==
    /\ \A i \in {1, 2} :
          /\ SucceededH(i, 1) <=> SucceededH(i, 2)
          /\ OutcomeH(i, 1) = OutcomeH(i, 2)
    /\ BothAsync => (Min(SettleIdxH(1, 1)) < Min(SettleIdxH(2, 1))
                        <=> Min(SettleIdxH(1, 2)) < Min(SettleIdxH(2, 2)))

\* C33: the apTo of lines 185-225 and the apTo of lines 603-610 fork the
\* two sides in the same order and report the same outcome for every pair
\* of sides, every value and every timing, also when both sides fail
\* inside the fork call.
C33_ApToVariantsAgree ==
    /\ NumForks = 2 => ForkedH(1) = ForkedH(2)
    /\ (Quiet /\ SameCompletions) => OutH(1) = OutH(2)

\* what the code does: the variant of lines 185-225 forks the function side
\* first, the variant of lines 603-610 the value side; so when both sides
\* fail inside the fork call the first reports the function side's error and
\* the second the value side's; and when both sides succeed and the value is
\* null or undefined the first reports fn(value) and the second nothing.
\* In every other case they report the same.
C33_WhereTheVariantsDiffer ==
    /\ NumForks >= 1 => ForkedH(1) = <<2, 1>>
    /\ NumForks = 2 => ForkedH(2) = <<1, 2>>
    /\ (Quiet /\ SameCompletions) =>
          IF BothSync /\ FailedH(1, 1) /\ FailedH(2, 1)
          THEN /\ OutH(1) = <<Report("rej", OutcomeH(2, 1))>>
               /\ OutH(2) = <<Report("rej", OutcomeH(1, 1))>>
          ELSE IF SucceededH(1, 1) /\ SucceededH(2, 1) /\ ~NotNull(OutcomeH(1, 1))
          THEN /\ OutH(1) = <<Report("res", Apply(OutcomeH(2, 1), OutcomeH(1, 1)))>>
               /\ OutH(2) = <<>>
          ELSE OutH(1) = OutH(2) /\ Len(OutH(1)) = 1

====
